---------------------------- MODULE Spec2Model ----------------------------
(***************************************************************************)
(* Two cooperating services: the user service (sign-up, sign-in, token     *)
(* validation, user listing/detail) and the post service (post CRUD behind *)
(* a remote authentication gate that calls the user service).              *)
(*                                                                         *)
(* Python's None is the empty tuple <<>>, a present value v is <<v>>.      *)
(* Time is the integer second count jose compares "exp" against.           *)
(***************************************************************************)
EXTENDS Integers, Sequences, FiniteSets, TLC

VARIABLES
    users,      \* user service: rows of table "users", row i has id i
    posts,      \* post service: rows of table "posts", row i has id i
    now,        \* wall clock, whole seconds
    issued,     \* tokens create_access_token has returned
    uresp,      \* user service: the request last answered and its response
    req,        \* post service: the request being handled, with its position
    vtok,       \* verifier check: the token string under test
    vres,       \* verifier check: what jwt.decode made of it
    iss,        \* issuer check: create_access_token's inputs and what it returned
    su          \* sign-up race: the two create_user calls in progress

vars == <<users, posts, now, issued, uresp, req, vtok, vres, iss, su>>

----------------------------------------------------------------------------
(* Bounds of the model *)

MaxTime == 2        \* the clock runs 0..MaxTime
MaxUsers == 2       \* rows the users table may grow to
MaxPosts == 2       \* rows the posts table may grow to
MaxIssued == 1      \* tokens sign-in may issue
MaxRepeats == 2     \* calls of validate-token made with one token

None == <<>>
Some(v) == <<v>>
Val(o) == o[1]
IsNone(o) == o = None

\* Python truthiness of an Optional[int] and of an Optional[str]
TruthyInt(o) == o # None /\ Val(o) # 0
TruthyStr(o) == o # None /\ Val(o) # ""

Times == 0..MaxTime
Emails == {"a@x.com", "b@x.com"}
Usernames == {"alice", "bob"}
Passwords == {"password1", "password2"}
Titles == {"title-1", "title-2"}
Descriptions == {"text-1"}

\* configs.JWT_SECRET_KEY and configs.ALGORITHM, and what a token may carry instead
JWT_SECRET_KEY == "secret"
ALGORITHM == "HS256"
Keys == {JWT_SECRET_KEY, "other-secret"}
Algs == {ALGORITHM, "HS512"}

\* JWTManager.expiration_minutes = int(configs.ACCESS_TOKEN_EXPIRE_MINUTES),
\* in clock ticks
ACCESS_TOKEN_EXPIRE_MINUTES == 1

----------------------------------------------------------------------------
(* Python dicts are functions from keys to values; d.get(k) is Get(d, k).   *)

Get(d, k) == IF k \in DOMAIN d THEN Some(d[k]) ELSE None
Put(d, k, v) == [f \in DOMAIN d \cup {k} |-> IF f = k THEN v ELSE d[f]]
Del(d, k) == [f \in DOMAIN d \ {k} |-> d[f]]
PutOpt(d, k, o) == IF o = None THEN d ELSE Put(d, k, Val(o))

----------------------------------------------------------------------------
(* Tokens.  A token string is either three well-formed segments (the        *)
(* header's alg, the claims, a signature made with some key), or an empty   *)
(* bearer parameter, or garbage.                                            *)

Jwt(key, alg, claims) == [form |-> "jwt", key |-> key, alg |-> alg, claims |-> claims]
Garbage == [form |-> "garbage", key |-> "", alg |-> "", claims |-> <<>>]
EmptyToken == [form |-> "empty", key |-> "", alg |-> "", claims |-> <<>>]

\* the claims dict holding the given keys, each possibly absent
MkClaims(id, email, is_admin, exp) ==
    PutOpt(PutOpt(PutOpt(PutOpt(<<>>, "id", id), "email", email),
                  "is_admin", is_admin), "exp", exp)

OptIds == {None} \cup {Some(i) : i \in 0..MaxUsers}
OptEmails == {None} \cup {Some(e) : e \in Emails}
OptExps == {None} \cup {Some(t) : t \in Times}

\* every token string of the bounded universe
AllTokens ==
    {Garbage, EmptyToken} \cup
    {Jwt(k, a, MkClaims(i, e, Some(ad), x)) :
        k \in Keys, a \in Algs, i \in OptIds, e \in OptEmails,
        ad \in {0, 1}, x \in OptExps}

\* the token strings clients present to the running services
TokenInputs ==
    {Garbage, EmptyToken} \cup
    {Jwt(JWT_SECRET_KEY, ALGORITHM, MkClaims(Some(i), Some(e), Some(ad), Some(1))) :
        i \in 1..MaxUsers, e \in Emails, ad \in {0, 1}} \cup
    {Jwt(JWT_SECRET_KEY, ALGORITHM, MkClaims(i, e, Some(0), Some(1))) :
        i \in {None, Some(0)}, e \in {None, Some("a@x.com")}} \cup
    {Jwt(JWT_SECRET_KEY, ALGORITHM, MkClaims(Some(1), Some("a@x.com"), Some(0), x)) :
        x \in {None, Some(0)}} \cup
    {Jwt(k, a, MkClaims(Some(1), Some("a@x.com"), Some(1), Some(MaxTime))) :
        k \in Keys, a \in Algs}

\* jose.jwt.encode(to_encode, key, algorithm)
jwt_encode(claims, key, alg) == Jwt(key, alg, claims)

Decoded(claims) == [ok |-> TRUE, error |-> "", claims |-> claims]
JWTError(text) == [ok |-> FALSE, error |-> text, claims |-> <<>>]

\* jose.jwt.decode(token, key, algorithms=[alg]) at second t: the segments are
\* split, the header's alg must be an allowed one, the signature must verify
\* under key, and an "exp" claim, when there is one, must not be less than t
jwt_decode(token, key, alg, t) ==
    IF token.form # "jwt" THEN JWTError("Not enough segments")
    ELSE IF token.alg # alg THEN JWTError("The specified alg value is not allowed")
    ELSE IF token.key # key THEN JWTError("Signature verification failed.")
    ELSE IF Get(token.claims, "exp") # None /\ token.claims.exp < t
         THEN JWTError("Signature has expired.")
    ELSE Decoded(token.claims)

\* a slip create_access_token could make: expires_delta is not used
create_access_token_default(data, expires_delta, t) ==
    jwt_encode(Put(data, "exp", t + ACCESS_TOKEN_EXPIRE_MINUTES), JWT_SECRET_KEY, ALGORITHM)

\* JWTManager.create_access_token(data, expires_delta) at second t;
\* expires_delta is None or Some(ttl), and "if expires_delta" is its truthiness
create_access_token(data, expires_delta, t) ==
    LET expire == IF TruthyInt(expires_delta)
                  THEN t + Val(expires_delta)
                  ELSE t + ACCESS_TOKEN_EXPIRE_MINUTES
    IN  jwt_encode(Put(data, "exp", expire), JWT_SECRET_KEY, ALGORITHM)

----------------------------------------------------------------------------
(* Responses.  BaseResponse is the envelope a handler returns (always with  *)
(* HTTP status 200); HTTPException is what a dependency raises.             *)

BaseResponse(resp_code, message, data) ==
    [kind |-> "envelope", code |-> resp_code, message |-> message, data |-> data]
HTTPException(status_code, detail) ==
    [kind |-> "http_error", code |-> status_code, message |-> detail, data |-> None]
NoResponse == [kind |-> "none", code |-> 0, message |-> "", data |-> None]

\* user service core/messages.py
USER_CREATION_SUCCESS == "User created successfully"
USER_NOT_FOUND == "User not found"
USER_ALREADY_EXISTS == "User email already exists"
USER_LIST_EMPTY == "User list is empty"
USER_LIST_SUCCESS == "User list fetched successfully"
USER_DETAILS_SUCCESS == "User details fetched successfully"
USER_ID_EMAIL_REQUIRED == "Either user ID or email is required"
USER_SIGN_IN_SUCCESS == "User signed in successfully"
INVALID_CREDENTIALS == "Invalid credentials, either email or password is incorrect"
INVALID_TOKEN == "Auth token is invalid"
TOKEN_REQUIRED == "Auth token is required"
UNAUTHORIZED == "Unauthorized access"
FORBIDDEN == "You are unauthorized to access this resource"

\* texts of exceptions that reach a handler's "except Exception" as str(e)
DB_ERROR_TEXT == "database error"
MULTIPLE_ROWS_TEXT == "Multiple rows were found when one or none was required"
INTEGRITY_ERROR_TEXT == "UNIQUE constraint failed"
TYPE_ERROR_TEXT == "UserController.get_user_posts() missing 1 required positional argument: 'token'"
NONE_SUBSCRIPT_TEXT == "'NoneType' object is not subscriptable"
NOT_AUTHENTICATED == "Not authenticated"

----------------------------------------------------------------------------
(* User service: the users table and the controller.                        *)

\* utils/secret.py SecretManager: a salted one-way hash and its check
hash_password(plain) == "hash:" \o plain
verify_password(plain, hashed) == hashed = hash_password(plain)

\* a slip the insert could make: the new row is an administrator's
User_asadmin(id, username, email, password) ==
    [id |-> id, username |-> username, email |-> email,
     password |-> password, is_admin |-> 1]

\* models/user.py: a row as the insert stores it; is_admin defaults to 0
User(id, username, email, password) ==
    [id |-> id, username |-> username, email |-> email,
     password |-> password, is_admin |-> 0]

\* the one row the deployment may seed directly in the database: an administrator
SeededAdmin ==
    [id |-> 1, username |-> "root", email |-> "root@x.com",
     password |-> hash_password("password0"), is_admin |-> 1]

\* UserController.serialize_user
serialize_user(user) ==
    [id |-> user.id, username |-> user.username, email |-> user.email,
     password |-> user.password, is_admin |-> user.is_admin]

\* the rows "select(User)" yields once get_user_by_column has added its where
SelectUsers(db, id, email) ==
    IF TruthyInt(id) THEN {i \in DOMAIN db : db[i].id = Val(id)}
    ELSE IF TruthyStr(email) THEN {i \in DOMAIN db : db[i].email = Val(email)}
    ELSE DOMAIN db

\* UserController.get_user_by_column(db, id, email, is_password, token);
\* fault: the query raises
get_user_by_column(db, id, email, is_password, token, fault) ==
    LET found == SelectUsers(db, id, email)
    IN  IF fault THEN BaseResponse(500, DB_ERROR_TEXT, None)
        ELSE IF Cardinality(found) > 1
             THEN BaseResponse(500, MULTIPLE_ROWS_TEXT, None)
        ELSE IF found = {} THEN BaseResponse(404, USER_NOT_FOUND, None)
        ELSE LET user == db[CHOOSE i \in found : TRUE]
             IN  IF ~is_password
                 \* UserController.get_user_posts(id, token) binds id to self and
                 \* token to user_id: the call raises TypeError, caught below it
                 THEN BaseResponse(500, TYPE_ERROR_TEXT, None)
                 ELSE BaseResponse(200, USER_DETAILS_SUCCESS, Some(serialize_user(user)))

\* UserController.create_user: the response and the table after it
create_user(db, email, username, password, fault) ==
    IF fault THEN [resp |-> BaseResponse(500, DB_ERROR_TEXT, None), db |-> db]
    ELSE IF \E i \in DOMAIN db : db[i].email = email
         THEN [resp |-> BaseResponse(400, USER_ALREADY_EXISTS, None), db |-> db]
    ELSE IF \E i \in DOMAIN db : db[i].username = username
         \* the unique index on username fails the commit
         THEN [resp |-> BaseResponse(500, INTEGRITY_ERROR_TEXT, None), db |-> db]
    ELSE [resp |-> BaseResponse(201, USER_CREATION_SUCCESS, None),
          db |-> Append(db, User(Len(db) + 1, username, email, hash_password(password)))]

\* a slip fetch_user_for_login could make: the hash stays in the data
fetch_user_for_login_keeps(db, email, password, t, fault) ==
    LET user == get_user_by_column(db, None, Some(email), TRUE, None, fault)
    IN  IF user.code = 404
        THEN [resp |-> BaseResponse(404, INVALID_CREDENTIALS, None), token |-> None]
        ELSE IF user.data = None
        THEN [resp |-> BaseResponse(500, NONE_SUBSCRIPT_TEXT, None), token |-> None]
        ELSE IF verify_password(password, Val(user.data).password)
        THEN LET data == Val(user.data)
                 token == create_access_token(data, None, t)
             IN  [resp |-> BaseResponse(200, USER_SIGN_IN_SUCCESS,
                                        Some(Put(data, "token", token))),
                  token |-> Some(token)]
        ELSE [resp |-> BaseResponse(401, INVALID_CREDENTIALS, None), token |-> None]

\* UserController.fetch_user_for_login: the response and the token issued, if any
fetch_user_for_login(db, email, password, t, fault) ==
    LET user == get_user_by_column(db, None, Some(email), TRUE, None, fault)
    IN  IF user.code = 404
        THEN [resp |-> BaseResponse(404, INVALID_CREDENTIALS, None), token |-> None]
        ELSE IF user.data = None
        \* user.data['password'] on the 500 response raises TypeError
        THEN [resp |-> BaseResponse(500, NONE_SUBSCRIPT_TEXT, None), token |-> None]
        ELSE IF verify_password(password, Val(user.data).password)
        THEN LET data == Del(Val(user.data), "password")
                 token == create_access_token(data, None, t)
             IN  [resp |-> BaseResponse(200, USER_SIGN_IN_SUCCESS,
                                        Some(Put(data, "token", token))),
                  token |-> Some(token)]
        ELSE [resp |-> BaseResponse(401, INVALID_CREDENTIALS, None), token |-> None]

\* a slip get_all_users could make: the rows are returned as serialized
get_all_users_raw(db, fault) ==
    IF fault THEN BaseResponse(500, DB_ERROR_TEXT, None)
    ELSE IF db # <<>>
    THEN BaseResponse(200, USER_LIST_SUCCESS,
                      Some([i \in DOMAIN db |-> serialize_user(db[i])]))
    ELSE BaseResponse(404, USER_LIST_EMPTY, None)

\* UserController.get_all_users
get_all_users(db, fault) ==
    IF fault THEN BaseResponse(500, DB_ERROR_TEXT, None)
    ELSE IF db # <<>>
    THEN BaseResponse(200, USER_LIST_SUCCESS,
                      Some([i \in DOMAIN db |-> Del(serialize_user(db[i]), "password")]))
    ELSE BaseResponse(404, USER_LIST_EMPTY, None)

\* a slip validate_token could make: the answer tells how long the token
\* still lives
validate_token_expires_in(token, db, t, fault) ==
    LET payload == jwt_decode(token, JWT_SECRET_KEY, ALGORITHM, t)
    IN  IF ~payload.ok THEN BaseResponse(401, payload.error, None)
        ELSE LET user == get_user_by_column(db, Get(payload.claims, "id"),
                                            Get(payload.claims, "email"), TRUE, None, fault)
                 left == IF Get(payload.claims, "exp") = None THEN 0
                         ELSE payload.claims.exp - t
             IN  IF user.data = None
                 THEN BaseResponse(401, UNAUTHORIZED, None)
                 ELSE BaseResponse(200, "", Some(Put(payload.claims, "expires_in", left)))

\* routes/auth.py validate_token; the header's "Bearer " prefix is already off
validate_token(token, db, t, fault) ==
    LET payload == jwt_decode(token, JWT_SECRET_KEY, ALGORITHM, t)
    IN  IF ~payload.ok THEN BaseResponse(401, payload.error, None)
        ELSE LET user == get_user_by_column(db, Get(payload.claims, "id"),
                                            Get(payload.claims, "email"), TRUE, None, fault)
             IN  IF user.data = None
                 THEN BaseResponse(401, UNAUTHORIZED, None)
                 ELSE BaseResponse(200, "", Some(payload.claims))

----------------------------------------------------------------------------
(* User service: the local gate and the authorization policy.               *)

Passed(payload) == [ok |-> TRUE, payload |-> payload, error |-> NoResponse]
Raised(error) == [ok |-> FALSE, payload |-> <<>>, error |-> error]

\* middlewares/authentication.py decode_token behind oauth2_scheme;
\* header is None when the request has no Authorization header
decode_token(header, t) ==
    IF header = None THEN Raised(HTTPException(401, NOT_AUTHENTICATED))
    ELSE IF Val(header).form = "empty" THEN Raised(HTTPException(400, TOKEN_REQUIRED))
    ELSE LET dec == jwt_decode(Val(header), JWT_SECRET_KEY, ALGORITHM, t)
         IN  IF ~dec.ok THEN Raised(HTTPException(401, UNAUTHORIZED))
             ELSE IF Get(dec.claims, "id") = None
                  THEN Raised(HTTPException(401, INVALID_TOKEN))
             ELSE Passed(Put(dec.claims, "token", Val(header)))

\* a slip check_is_admin could make: the role is not tested
check_is_admin_idonly(user) == Get(user, "id") # None

\* check_is_admin(user)
check_is_admin(user) == Get(user, "is_admin") = Some(1)

\* a slip authorize_user could make: the email is not compared
authorize_user_noemail(user_id, email, logged_in_user) ==
    IF Get(logged_in_user, "is_admin") = Some(1) THEN TRUE
    ELSE IF TruthyInt(user_id) /\ user_id # Get(logged_in_user, "id") THEN FALSE
    ELSE TRUE

\* authorize_user(user_id, email, logged_in_user): TRUE when it returns,
\* FALSE when it raises 403
authorize_user(user_id, email, logged_in_user) ==
    IF Get(logged_in_user, "is_admin") = Some(1) THEN TRUE
    ELSE IF TruthyInt(user_id) /\ user_id # Get(logged_in_user, "id") THEN FALSE
    ELSE IF TruthyStr(email) /\ email # Get(logged_in_user, "email") THEN FALSE
    ELSE TRUE

\* routes/user.py GET /users/detail with its authorize_user dependency
get_user_detail(header, user_id, email, db, t, fault) ==
    LET gate == decode_token(header, t)
    IN  IF ~gate.ok THEN gate.error
        ELSE IF ~authorize_user(user_id, email, gate.payload)
             THEN HTTPException(403, FORBIDDEN)
        ELSE IF ~TruthyInt(user_id) /\ ~TruthyStr(email)
             THEN BaseResponse(400, USER_ID_EMAIL_REQUIRED, None)
        ELSE get_user_by_column(db, user_id, email, FALSE, header, fault)

\* routes/user.py GET /users/ with its check_is_admin dependency
get_users(header, db, t, fault) ==
    LET gate == decode_token(header, t)
    IN  IF ~gate.ok THEN gate.error
        ELSE IF ~check_is_admin(gate.payload) THEN HTTPException(403, FORBIDDEN)
        ELSE get_all_users(db, fault)

----------------------------------------------------------------------------
(* Post service: the posts table and the controller.                        *)

\* post service core/messages.py
POST_CREATION_SUCCESS == "Post created successfully"
POST_UPDATE_SUCCESS == "Post updated successfully"
POST_DELETE_SUCCESS == "Post deleted successfully"
POST_NOT_FOUND == "Post not found"
POST_ALREADY_EXISTS == "Post already exists"
POST_LIST_SUCCESS == "Post list fetched successfully"
POST_DETAILS_SUCCESS == "Post details fetched successfully"
POST_TOKEN_REQUIRED == "Auth token is required"
INTERNAL_SERVER_ERROR == "Something went wrong, please try again later"
NO_RECORDS == "No records found"

NOT_NULL_TEXT == "NOT NULL constraint failed: posts.created_by_user_id"
SERVER_ERROR_TEXT == "Internal Server Error"

\* models/post.py: a row as the insert stores it; is_deleted defaults to 0
Post(id, title, description, created_by_user_id) ==
    [id |-> id, title |-> title, description |-> description,
     created_by_user_id |-> created_by_user_id, is_deleted |-> 0]

Done(resp, db) == [resp |-> resp, db |-> db]

\* PostService.create_post; created_by_user_id is None or Some(id)
create_post(db, title, description, created_by_user_id, fault) ==
    IF fault THEN Done(BaseResponse(500, DB_ERROR_TEXT, None), db)
    ELSE IF \E i \in DOMAIN db : db[i].title = title
         THEN Done(BaseResponse(409, POST_ALREADY_EXISTS, None), db)
    ELSE IF created_by_user_id = None
         \* the column is not nullable: the commit fails
         THEN Done(BaseResponse(500, NOT_NULL_TEXT, None), db)
    ELSE Done(BaseResponse(201, POST_CREATION_SUCCESS, None),
              Append(db, Post(Len(db) + 1, title, description, Val(created_by_user_id))))

\* a slip get_post_details could make: deleted rows are filtered out, as in the lists
get_post_details_live(db, post_id, fault) ==
    IF fault THEN BaseResponse(500, INTERNAL_SERVER_ERROR, None)
    ELSE IF post_id \in DOMAIN db /\ db[post_id].is_deleted = 0
         THEN BaseResponse(200, POST_DETAILS_SUCCESS, Some(db[post_id]))
    ELSE BaseResponse(404, POST_NOT_FOUND, None)

\* PostService.get_post_details
get_post_details(db, post_id, fault) ==
    IF fault THEN BaseResponse(500, INTERNAL_SERVER_ERROR, None)
    ELSE IF post_id \in DOMAIN db
         THEN BaseResponse(200, POST_DETAILS_SUCCESS, Some(db[post_id]))
    ELSE BaseResponse(404, POST_NOT_FOUND, None)

\* the rows a filtered select yields, in id order
RECURSIVE Filter(_, _)
Filter(db, keep) ==
    IF db = <<>> THEN <<>>
    ELSE LET rest == Filter(Tail(db), keep)
         IN  IF Head(db).id \in keep THEN <<Head(db)>> \o rest ELSE rest

\* PostService.get_post_list
get_post_list(db, fault) ==
    LET rows == Filter(db, {i \in DOMAIN db : db[i].is_deleted = 0})
    IN  IF fault THEN BaseResponse(500, INTERNAL_SERVER_ERROR, None)
        ELSE IF rows # <<>> THEN BaseResponse(200, POST_LIST_SUCCESS, Some(rows))
        ELSE BaseResponse(200, NO_RECORDS, Some(<<>>))

\* PostService.get_user_posts
get_user_posts(db, user_id, fault) ==
    LET rows == Filter(db, {i \in DOMAIN db : /\ db[i].created_by_user_id = user_id
                                              /\ db[i].is_deleted = 0})
    IN  IF fault THEN BaseResponse(500, INTERNAL_SERVER_ERROR, None)
        ELSE IF rows # <<>> THEN BaseResponse(200, POST_LIST_SUCCESS, Some(rows))
        ELSE BaseResponse(200, NO_RECORDS, Some(<<>>))

\* a slip update_post could make: the creator is not compared
UpdatablePosts_anyone(db, post_id, created_by_user_id) ==
    {i \in DOMAIN db : db[i].id = post_id /\ db[i].is_deleted = 0}

\* the row update_post selects: only the creator's own, not deleted
UpdatablePosts(db, post_id, created_by_user_id) ==
    {i \in DOMAIN db : /\ db[i].id = post_id
                       /\ Some(db[i].created_by_user_id) = created_by_user_id
                       /\ db[i].is_deleted = 0}

\* PostService.update_post
update_post(db, post_id, title, description, created_by_user_id, fault) ==
    LET found == UpdatablePosts(db, post_id, created_by_user_id)
    IN  IF fault THEN Done(BaseResponse(500, INTERNAL_SERVER_ERROR, None), db)
        ELSE IF found = {} THEN Done(BaseResponse(404, POST_NOT_FOUND, None), db)
        ELSE IF \E j \in DOMAIN db : j # post_id /\ db[j].title = title
             \* the unique index on title fails the commit
             THEN Done(BaseResponse(500, INTERNAL_SERVER_ERROR, None), db)
        ELSE Done(BaseResponse(200, POST_UPDATE_SUCCESS, None),
                  [db EXCEPT ![post_id].title = IF title # "" THEN title ELSE @,
                             ![post_id].description =
                                 IF description # "" THEN description ELSE @])

\* a slip delete_post could make: the creator is not compared
DeletablePosts_anyone(db, post_id, user_id, is_admin) ==
    {i \in DOMAIN db : db[i].id = post_id /\ db[i].is_deleted = 0}

\* the row delete_post selects: any for an admin, else the creator's own
DeletablePosts(db, post_id, user_id, is_admin) ==
    IF TruthyInt(is_admin)
    THEN {i \in DOMAIN db : db[i].id = post_id /\ db[i].is_deleted = 0}
    ELSE {i \in DOMAIN db : /\ db[i].id = post_id
                            /\ Some(db[i].created_by_user_id) = user_id
                            /\ db[i].is_deleted = 0}

\* a slip delete_post could make: the select forgets is_deleted and the flag is flipped
delete_post_toggle(db, post_id, user_id, is_admin, fault) ==
    LET found == {i \in DOMAIN db :
                     /\ db[i].id = post_id
                     /\ TruthyInt(is_admin) \/ Some(db[i].created_by_user_id) = user_id}
    IN  IF fault THEN Done(BaseResponse(500, INTERNAL_SERVER_ERROR, None), db)
        ELSE IF found = {} THEN Done(BaseResponse(404, POST_NOT_FOUND, None), db)
        ELSE Done(BaseResponse(200, POST_DELETE_SUCCESS, None),
                  [db EXCEPT ![post_id].is_deleted = 1 - @])

\* PostService.delete_post
delete_post(db, post_id, user_id, is_admin, fault) ==
    LET found == DeletablePosts(db, post_id, user_id, is_admin)
    IN  IF fault THEN Done(BaseResponse(500, INTERNAL_SERVER_ERROR, None), db)
        ELSE IF found = {} THEN Done(BaseResponse(404, POST_NOT_FOUND, None), db)
        ELSE Done(BaseResponse(200, POST_DELETE_SUCCESS, None),
                  [db EXCEPT ![post_id].is_deleted = 1])

----------------------------------------------------------------------------
(* Post service: the remote gate.  What the GET to /auth/validate-token     *)
(* brings back is a JSON body (a dict, null or a list), or no JSON at all,  *)
(* or the call raises (time-out, connection refused).                       *)

JsonDict(d) == [kind |-> "dict", dict |-> d, len |-> 0]
JsonNull == [kind |-> "null", dict |-> <<>>, len |-> 0]
JsonList(n) == [kind |-> "list", dict |-> <<>>, len |-> n]
Unparseable == [kind |-> "unparseable", dict |-> <<>>, len |-> 0]
TimedOut == [kind |-> "timeout", dict |-> <<>>, len |-> 0]
Refused == [kind |-> "refused", dict |-> <<>>, len |-> 0]

\* BaseResponse as the JSON dict the user service sends
ToJson(resp) ==
    JsonDict([resp_code |-> resp.code, message |-> resp.message, data |-> resp.data])

\* FastAPI's own error body, with neither resp_code nor message
ValidationErrorBody == JsonDict([detail |-> "Field required"])

\* replies that do not come from validate_token
TransportReplies ==
    {JsonDict(<<>>), JsonNull, JsonList(0), JsonList(1), ValidationErrorBody,
     Unparseable, TimedOut, Refused}

\* str(e) of what verify_token's "except Exception" catches
TIMEOUT_TEXT == "The read operation timed out"
REFUSED_TEXT == "All connection attempts failed"
JSON_ERROR_TEXT == "Expecting value: line 1 column 1 (char 0)"
ATTRIBUTE_ERROR_TEXT == "'list' object has no attribute 'get'"
UNAUTHORIZED_PHRASE == "Unauthorized"

\* The Starlette builds FastAPI may be installed with differ in str() of an
\* HTTPException: "<status>: <detail>" where __str__ is defined, "" before it
StrBuilds == {"with __str__", "without __str__"}
StrHTTPException(status_text, detail, build) ==
    IF build = "with __str__"
    THEN status_text \o ": " \o (IF detail = None THEN UNAUTHORIZED_PHRASE ELSE Val(detail))
    ELSE ""

\* Python truthiness of a parsed JSON body
TruthyJson(body) ==
    \/ body.kind = "dict" /\ body.dict # <<>>
    \/ body.kind = "list" /\ body.len > 0

\* a slip verify_token could make: the header's absence is not tested
token_missing_never(header) == FALSE

\* verify_token's "if not token" on request.headers.get("Authorization")
token_missing(header) == header = None

\* a slip verify_token could make: a transport failure is not turned into 401
verify_token_reraise(header, reply, build) ==
    IF token_missing(header) THEN Raised(HTTPException(401, POST_TOKEN_REQUIRED))
    ELSE IF reply.kind = "timeout" THEN Raised(HTTPException(500, TIMEOUT_TEXT))
    ELSE IF reply.kind = "refused" THEN Raised(HTTPException(500, REFUSED_TEXT))
    ELSE IF reply.kind = "unparseable" THEN Raised(HTTPException(500, JSON_ERROR_TEXT))
    ELSE IF ~TruthyJson(reply) THEN Passed(reply)
    ELSE IF reply.kind = "list" THEN Raised(HTTPException(401, ATTRIBUTE_ERROR_TEXT))
    ELSE IF Get(reply.dict, "resp_code") # Some(200)
         THEN Raised(HTTPException(401,
                  StrHTTPException("401", Get(reply.dict, "message"), build)))
    ELSE Passed(reply)

\* middlewares/authorization.py verify_token, given what its GET brings back
verify_token(header, reply, build) ==
    IF token_missing(header) THEN Raised(HTTPException(401, POST_TOKEN_REQUIRED))
    ELSE IF reply.kind = "timeout" THEN Raised(HTTPException(401, TIMEOUT_TEXT))
    ELSE IF reply.kind = "refused" THEN Raised(HTTPException(401, REFUSED_TEXT))
    ELSE IF reply.kind = "unparseable" THEN Raised(HTTPException(401, JSON_ERROR_TEXT))
    ELSE IF ~TruthyJson(reply) THEN Passed(reply)
    \* response_data.get on a list raises AttributeError, caught
    ELSE IF reply.kind = "list" THEN Raised(HTTPException(401, ATTRIBUTE_ERROR_TEXT))
    \* the HTTPException raised inside the try is caught by "except Exception"
    \* and raised again with detail=str(e)
    ELSE IF Get(reply.dict, "resp_code") # Some(200)
         THEN Raised(HTTPException(401,
                  StrHTTPException("401", Get(reply.dict, "message"), build)))
    ELSE Passed(reply)

----------------------------------------------------------------------------
(* Post service: the routes.                                                *)

Routes == {"list", "create", "details", "edit", "delete", "user-posts"}

\* a slip the router could make: GET /posts/ loses its dependency
ProtectedRoutes_listopen == Routes \ {"list"}

\* the routes declared with Depends(verify_token)
ProtectedRoutes == Routes

\* user.get('data') of the principal the gate returned: the claims, or None
\* when the attribute access raises (the principal is not a dict, or holds no data)
PrincipalData(principal) ==
    IF principal.kind = "dict" /\ "data" \in DOMAIN principal.dict
    THEN principal.dict.data
    ELSE None

\* a slip the create route could make: an owner id sent by the caller is used
CreatorOf_supplied(r) ==
    IF r.user_id # 0 THEN Some(r.user_id)
    ELSE Get(Val(PrincipalData(r.principal)), "id")

\* create_post's created_by_user_id = user.get('data').get('id'): the id of
\* the principal the gate returned; no form field of the request is read for it
CreatorOf(r) == Get(Val(PrincipalData(r.principal)), "id")

\* what a route handler does once its dependencies are resolved
RunRoute(r, db, fault) ==
    LET data == PrincipalData(r.principal)
        \* user.get('data').get('id') raises AttributeError: the server answers 500
        crash == Done([kind |-> "http_error", code |-> 500,
                       message |-> SERVER_ERROR_TEXT, data |-> None], db)
    IN  CASE r.route = "list" -> Done(get_post_list(db, fault), db)
          [] r.route = "details" -> Done(get_post_details(db, r.post_id, fault), db)
          [] r.route = "user-posts" -> Done(get_user_posts(db, r.user_id, fault), db)
          [] r.route = "create" ->
                IF data = None THEN crash
                ELSE create_post(db, r.title, r.description, CreatorOf(r), fault)
          [] r.route = "edit" ->
                IF data = None THEN crash
                ELSE update_post(db, r.post_id, r.title, r.description,
                                 Get(Val(data), "id"), fault)
          [] r.route = "delete" ->
                IF data = None THEN crash
                ELSE delete_post(db, r.post_id, Get(Val(data), "id"),
                                 Get(Val(data), "is_admin"), fault)

----------------------------------------------------------------------------
(* The state after start-up and the requests clients send to the user       *)
(* service.  A handler runs in one step; uresp holds the request it has     *)
(* answered, with the response, until the response is delivered.            *)

Idle ==
    [op |-> "none", header |-> None, user_id |-> None, email |-> None,
     password |-> None, fault |-> FALSE, resp |-> NoResponse, at |-> 0, nusers |-> 0]

Answered(op, header, user_id, email, password, fault, resp) ==
    [op |-> op, header |-> header, user_id |-> user_id, email |-> email,
     password |-> password, fault |-> fault, resp |-> resp,
     at |-> now, nusers |-> Len(users)]

\* no call of create_access_token is under test
NoIssue ==
    [pc |-> "none", data |-> <<>>, ttl |-> None, at |-> 0, token |-> Garbage,
     checked |-> 0]

\* no create_user call is in progress
NoSignUps == <<>>

NoRequest ==
    [pc |-> "idle", route |-> "none", header |-> None, post_id |-> 0, user_id |-> 0,
     title |-> "", description |-> "", called |-> FALSE, reply |-> JsonNull,
     principal |-> JsonNull, resp |-> NoResponse]

Init ==
    /\ users \in {<<>>, <<SeededAdmin>>}
    /\ posts = <<>>
    /\ now = 0
    /\ issued = {}
    /\ uresp = Idle
    /\ req = NoRequest
    /\ vtok = Garbage
    /\ vres = JWTError("unchecked")
    /\ iss = NoIssue
    /\ su = NoSignUps

\* what a client may put in the Authorization header
Presentable == TokenInputs \cup issued
Headers == {None} \cup {Some(tok) : tok \in Presentable}

SignUpPasswords == {"password1"}
LoginEmails == Emails \cup {SeededAdmin.email}
LoginPasswords == Passwords \cup {"password0"}

\* the clock advances
Tick ==
    /\ uresp = Idle
    /\ now < MaxTime
    /\ now' = now + 1
    /\ UNCHANGED <<users, posts, issued, uresp, req, vtok, vres, iss, su>>

\* POST /auth/sign-up
SignUp ==
    /\ uresp = Idle
    /\ \E email \in Emails, username \in Usernames, password \in SignUpPasswords,
       fault \in BOOLEAN :
        LET r == create_user(users, email, username, password, fault)
        IN  /\ Len(r.db) <= MaxUsers
            /\ users' = r.db
            /\ uresp' = Answered("sign-up", None, None, Some(email), Some(password),
                                 fault, r.resp)
            /\ UNCHANGED <<posts, now, issued, req, vtok, vres, iss, su>>

\* POST /auth/sign-in
SignIn ==
    /\ uresp = Idle
    /\ \E email \in LoginEmails, password \in LoginPasswords, fault \in BOOLEAN :
        LET r == fetch_user_for_login(users, email, password, now, fault)
            out == IF r.token = None THEN issued ELSE issued \cup {Val(r.token)}
        IN  /\ Cardinality(out) <= MaxIssued
            /\ issued' = out
            /\ uresp' = Answered("sign-in", None, None, Some(email), Some(password),
                                 fault, r.resp)
            /\ UNCHANGED <<users, posts, now, req, vtok, vres, iss, su>>

\* GET /auth/validate-token, sent by any client
ValidateToken ==
    /\ uresp = Idle
    /\ \E tok \in Presentable, fault \in BOOLEAN :
        /\ uresp' = Answered("validate-token", Some(tok), None, None, None, fault,
                             validate_token(tok, users, now, fault))
        /\ UNCHANGED <<users, posts, now, issued, req, vtok, vres, iss, su>>

\* GET /users/
GetUsers ==
    /\ uresp = Idle
    /\ \E header \in Headers, fault \in BOOLEAN :
        /\ uresp' = Answered("users", header, None, None, None, fault,
                             get_users(header, users, now, fault))
        /\ UNCHANGED <<users, posts, now, issued, req, vtok, vres, iss, su>>

QueryUserIds == {None} \cup {Some(i) : i \in 0..MaxUsers}
QueryEmails == {None, Some("")} \cup {Some(e) : e \in Emails}

\* GET /users/detail?user_id=..&email=..
GetUserDetail ==
    /\ uresp = Idle
    /\ \E header \in Headers, user_id \in QueryUserIds, email \in QueryEmails,
       fault \in BOOLEAN :
        /\ uresp' = Answered("detail", header, user_id, email, None, fault,
                             get_user_detail(header, user_id, email, users, now, fault))
        /\ UNCHANGED <<users, posts, now, issued, req, vtok, vres, iss, su>>

\* the client receives the response
Deliver ==
    /\ uresp # Idle
    /\ uresp' = Idle
    /\ UNCHANGED <<users, posts, now, issued, req, vtok, vres, iss, su>>

UserNext == Tick \/ Deliver \/ SignUp \/ SignIn \/ ValidateToken \/ GetUsers \/ GetUserDetail

UserSpec == Init /\ [][UserNext]_vars

----------------------------------------------------------------------------
(* The requests clients send to the post service.  req.pc is the request's  *)
(* position: "gate" (dependencies being resolved), "calling" (the GET to    *)
(* the user service is out), "handler" (the gate returned, the route's      *)
(* function is about to run), "rejected" (the gate raised), "done".         *)

\* the users tables the post service's deployments run against
PostInit ==
    /\ users \in {<<SeededAdmin>>,
                  <<User(1, "alice", "a@x.com", hash_password("password1")),
                    User(2, "bob", "b@x.com", hash_password("password1"))>>}
    /\ posts = <<>>
    /\ now = 0
    /\ issued = {}
    /\ uresp = Idle
    /\ req = NoRequest
    /\ vtok = Garbage
    /\ vres = JWTError("unchecked")
    /\ iss = NoIssue
    /\ su = NoSignUps

PostIds == 1..MaxPosts
UserIds == 1..MaxUsers

\* the token strings clients present to the post service
PostTokens ==
    {Garbage,
     Jwt(JWT_SECRET_KEY, ALGORITHM, MkClaims(None, None, Some(0), Some(1))),
     Jwt("other-secret", ALGORITHM, MkClaims(Some(1), Some("a@x.com"), Some(1), Some(MaxTime)))}
    \cup {Jwt(JWT_SECRET_KEY, ALGORITHM, MkClaims(Some(i), Some("a@x.com"), Some(ad), Some(1))) :
             i \in UserIds, ad \in {0, 1}}
PostHeaders == {None} \cup {Some(tok) : tok \in PostTokens}

Request(route, header, post_id, user_id, title, description) ==
    [pc |-> IF route \in ProtectedRoutes THEN "gate" ELSE "handler",
     route |-> route, header |-> header, post_id |-> post_id, user_id |-> user_id,
     title |-> title, description |-> description, called |-> FALSE,
     reply |-> JsonNull, principal |-> JsonNull, resp |-> NoResponse]

\* the created_by_user_id a caller may add to the create form: none, or user 2's
SuppliedOwnerIds == {0, 2}

\* a request arrives at one of the six routes
Arrive ==
    /\ req.pc = "idle"
    /\ \E header \in PostHeaders :
        \/ req' = Request("list", header, 0, 0, "", "")
        \* the form may carry a created_by_user_id field of the caller's choosing
        \/ \E t \in Titles, d \in Descriptions, u \in SuppliedOwnerIds :
               req' = Request("create", header, 0, u, t, d)
        \/ \E p \in PostIds : req' = Request("details", header, p, 0, "", "")
        \/ \E p \in PostIds, t \in Titles, d \in Descriptions :
               req' = Request("edit", header, p, 0, t, d)
        \/ \E p \in PostIds : req' = Request("delete", header, p, 0, "", "")
        \/ \E u \in UserIds : req' = Request("user-posts", header, 0, u, "", "")
    /\ UNCHANGED <<users, posts, now, issued, uresp, vtok, vres, iss, su>>

\* verify_token up to its GET: no header, no call
GateStart ==
    /\ req.pc = "gate"
    /\ IF token_missing(req.header)
       THEN req' = [req EXCEPT !.pc = "rejected",
                               !.resp = verify_token(req.header, JsonNull, "").error]
       ELSE req' = [req EXCEPT !.pc = "calling", !.called = TRUE]
    /\ UNCHANGED <<users, posts, now, issued, uresp, vtok, vres, iss, su>>

\* what the GET may bring back: the user service's answer, or a transport outcome
Replies(header) ==
    {ToJson(validate_token(Val(header), users, now, fault)) : fault \in BOOLEAN}
        \cup TransportReplies

\* verify_token from its GET's outcome on
GateReceive ==
    /\ req.pc = "calling"
    /\ \E reply \in Replies(req.header), build \in StrBuilds :
        LET gate == verify_token(req.header, reply, build)
        IN  req' = IF gate.ok
                   THEN [req EXCEPT !.pc = "handler", !.reply = reply,
                                    !.principal = gate.payload]
                   ELSE [req EXCEPT !.pc = "rejected", !.reply = reply,
                                    !.resp = gate.error]
    /\ UNCHANGED <<users, posts, now, issued, uresp, vtok, vres, iss, su>>

\* the route's function runs
Handler ==
    /\ req.pc = "handler"
    /\ \E fault \in BOOLEAN :
        LET r == RunRoute(req, posts, fault)
        IN  /\ Len(r.db) <= MaxPosts
            /\ posts' = r.db
            /\ req' = [req EXCEPT !.pc = "done", !.resp = r.resp]
    /\ UNCHANGED <<users, now, issued, uresp, vtok, vres, iss, su>>

\* the client receives the response
Finish ==
    /\ req.pc \in {"rejected", "done"}
    /\ req' = NoRequest
    /\ UNCHANGED <<users, posts, now, issued, uresp, vtok, vres, iss, su>>

PostNext == Tick \/ Arrive \/ GateStart \/ GateReceive \/ Handler \/ Finish

PostSpec == PostInit /\ [][PostNext]_vars

\* the GET returns or raises (httpx's default time-out bounds it), and the
\* event loop runs every ready coroutine
FairPostSpec ==
    PostSpec /\ WF_vars(GateStart) /\ WF_vars(GateReceive) /\ WF_vars(Handler)

----------------------------------------------------------------------------
(* The verifier alone: jwt.decode, as validate_token and decode_token call  *)
(* it, applied to every token string of the universe at every second.       *)

Unchecked == JWTError("unchecked")

VerifyInit ==
    /\ users = <<>>
    /\ posts = <<>>
    /\ now \in Times
    /\ issued = {}
    /\ uresp = Idle
    /\ req = NoRequest
    /\ vtok \in AllTokens
    /\ vres = Unchecked
    /\ iss = NoIssue
    /\ su = NoSignUps

VerifyCheck ==
    /\ vres = Unchecked
    /\ vres' = jwt_decode(vtok, JWT_SECRET_KEY, ALGORITHM, now)
    /\ UNCHANGED <<users, posts, now, issued, uresp, req, vtok, iss, su>>

VerifySpec == VerifyInit /\ [][VerifyCheck]_vars

----------------------------------------------------------------------------
(* The issuer alone: create_access_token applied to a claim set and an      *)
(* expires_delta, and jwt.decode applied to what it returned, at every      *)
(* second from the issue on.                                                *)

\* the dicts passed as data: a login's, one without an id, one that already
\* carries an exp, and the empty one
ClaimSets ==
    {<<>>,
     MkClaims(Some(1), Some("a@x.com"), Some(0), None),
     MkClaims(Some(2), Some("b@x.com"), Some(1), None),
     MkClaims(None, Some("a@x.com"), Some(0), None),
     MkClaims(Some(1), Some("a@x.com"), Some(0), Some(0))}

\* expires_delta: None, or a timedelta of so many seconds
Ttls == {None} \cup {Some(n) : n \in -1..MaxTime}

IssueInit ==
    /\ users = <<>>
    /\ posts = <<>>
    /\ now = 0
    /\ issued = {}
    /\ uresp = Idle
    /\ req = NoRequest
    /\ vtok = Garbage
    /\ vres = Unchecked
    /\ iss \in {[NoIssue EXCEPT !.pc = "start", !.data = d, !.ttl = x] :
                    d \in ClaimSets, x \in Ttls}
    /\ su = NoSignUps

\* create_access_token(data, expires_delta) is called
Issue ==
    /\ iss.pc = "start"
    /\ iss' = [iss EXCEPT !.pc = "issued", !.at = now,
                          !.token = create_access_token(iss.data, iss.ttl, now)]
    /\ UNCHANGED <<users, posts, now, issued, uresp, req, vtok, vres, su>>

\* the token it returned is verified
IssueVerify ==
    /\ iss.pc \in {"issued", "checked"}
    /\ vres' = jwt_decode(iss.token, JWT_SECRET_KEY, ALGORITHM, now)
    /\ iss' = [iss EXCEPT !.pc = "checked", !.checked = now]
    /\ UNCHANGED <<users, posts, now, issued, uresp, req, vtok, su>>

IssueNext == Tick \/ Issue \/ IssueVerify

IssueSpec == IssueInit /\ [][IssueNext]_vars

----------------------------------------------------------------------------
(* validate-token called again and again with one token, while the clock    *)
(* runs and users sign up.  vres holds the last call and counts the calls.   *)

NoCalls == [last |-> Idle, n |-> 0]

RepeatInit ==
    /\ users \in {<<>>, <<SeededAdmin>>}
    /\ posts = <<>>
    /\ now = 0
    /\ issued = {}
    /\ uresp = Idle
    /\ req = NoRequest
    /\ vtok \in TokenInputs
    /\ vres = NoCalls
    /\ iss = NoIssue
    /\ su = NoSignUps

\* GET /auth/validate-token with the token under test
Revalidate ==
    /\ uresp = Idle
    /\ vres.n < MaxRepeats
    /\ \E fault \in BOOLEAN :
        LET call == Answered("validate-token", Some(vtok), None, None, None, fault,
                             validate_token(vtok, users, now, fault))
        IN  /\ uresp' = call
            /\ vres' = [last |-> call, n |-> vres.n + 1]
    /\ UNCHANGED <<users, posts, now, issued, req, vtok, iss, su>>

RepeatNext == Tick \/ Deliver \/ SignUp \/ Revalidate

RepeatSpec == RepeatInit /\ [][RepeatNext]_vars

----------------------------------------------------------------------------
(* Two sign-up requests handled at once.  create_user awaits the select and *)
(* the commit, so another request's steps may run between its existence     *)
(* check and its commit; each request has a session of its own.             *)

Racers == {1, 2}

\* the tables the two requests may meet
RaceTables ==
    {<<>>, <<SeededAdmin>>, <<User(1, "alice", "a@x.com", hash_password("password1"))>>}

RaceInit ==
    /\ users \in RaceTables
    /\ posts = <<>>
    /\ now = 0
    /\ issued = {}
    /\ uresp = Idle
    /\ req = NoRequest
    /\ vtok = Garbage
    /\ vres = Unchecked
    /\ iss = NoIssue
    /\ \E e1 \in Emails, e2 \in Emails, n1 \in Usernames, n2 \in Usernames :
          su = [p \in Racers |->
                  [pc |-> "start", email |-> IF p = 1 THEN e1 ELSE e2,
                   username |-> IF p = 1 THEN n1 ELSE n2,
                   nusers |-> Len(users), resp |-> NoResponse]]

\* create_user up to "if existing_user": the select by email, and the 400
SignUpCheck(p) ==
    /\ su[p].pc = "start"
    /\ su' = [su EXCEPT ![p] =
                IF \E i \in DOMAIN users : users[i].email = su[p].email
                THEN [@ EXCEPT !.pc = "done",
                               !.resp = BaseResponse(400, USER_ALREADY_EXISTS, None)]
                ELSE [@ EXCEPT !.pc = "insert"]]
    /\ UNCHANGED <<users, posts, now, issued, uresp, req, vtok, vres, iss>>

\* create_user from db.add to the return: the commit fails on the unique
\* indexes of email and username, and the except answers 500
SignUpCommit(p) ==
    /\ su[p].pc = "insert"
    /\ IF \E i \in DOMAIN users : \/ users[i].email = su[p].email
                                  \/ users[i].username = su[p].username
       THEN /\ su' = [su EXCEPT ![p].pc = "done",
                                ![p].resp = BaseResponse(500, INTEGRITY_ERROR_TEXT, None)]
            /\ users' = users
       ELSE /\ su' = [su EXCEPT ![p].pc = "done",
                                ![p].resp = BaseResponse(201, USER_CREATION_SUCCESS, None)]
            /\ users' = Append(users, User(Len(users) + 1, su[p].username, su[p].email,
                                           hash_password("password1")))
    /\ UNCHANGED <<posts, now, issued, uresp, req, vtok, vres, iss>>

RaceNext == \E p \in Racers : SignUpCheck(p) \/ SignUpCommit(p)

RaceSpec == RaceInit /\ [][RaceNext]_vars

----------------------------------------------------------------------------
(* Claims *)

SignatureVerifies(tok) ==
    tok.form = "jwt" /\ tok.key = JWT_SECRET_KEY /\ tok.alg = ALGORITHM

\* C1: the verifier accepts a token if and only if its signature verifies under
\* the configured secret and algorithm and the check time is before its exp.
C1_AcceptIffSignedAndBeforeExp ==
    vres # Unchecked =>
        (vres.ok <=> /\ SignatureVerifies(vtok)
                     /\ "exp" \in DOMAIN vtok.claims
                     /\ now < vtok.claims.exp)

\* the credential record a claim set refers to: the one with its id, or, for a
\* claim set with no id, the one with its email
RecordExists(claims, db) ==
    \E i \in DOMAIN db :
        \/ Get(claims, "id") = Some(db[i].id)
        \/ Get(claims, "id") = None /\ Get(claims, "email") = Some(db[i].email)

\* C2: absent a database failure, validate-token answers 200 with the decoded
\* claims if and only if the token passes verification and the credential
\* record its claims refer to exists; in every other case it answers 401.
C2_ValidateIffVerifiedAndExists ==
    (uresp.op = "validate-token" /\ ~uresp.fault) =>
        LET tok == Val(uresp.header)
            dec == jwt_decode(tok, JWT_SECRET_KEY, ALGORITHM, now)
        IN  IF dec.ok /\ RecordExists(dec.claims, users)
            THEN uresp.resp.code = 200 /\ uresp.resp.data = Some(dec.claims)
            ELSE uresp.resp.code = 401

\* the caller of a /users/detail request that passed the local gate
DetailPassed == uresp.op = "detail" /\ decode_token(uresp.header, now).ok
Caller == decode_token(uresp.header, now).payload
CallerIsAdmin == Get(Caller, "is_admin") = Some(1)

\* C7 as stated: a target counts as provided whenever the query carries it.
C7_RuleWithEveryProvidedTarget ==
    DetailPassed =>
        LET deny == /\ ~CallerIsAdmin
                    /\ \/ uresp.user_id # None /\ uresp.user_id # Get(Caller, "id")
                       \/ uresp.email # None /\ uresp.email # Get(Caller, "email")
        IN  (uresp.resp = HTTPException(403, FORBIDDEN)) <=> deny

\* C7: authorize_user allows an admin; otherwise it denies with 403 when a
\* non-zero user_id differs from the caller's id or a non-empty email differs
\* from the caller's email, and allows in every other case (a user_id of 0 and
\* an empty email count as absent); and the row an allowed non-admin request
\* selects is never a row other than the caller's own.
C7_AuthorizeUserRule ==
    DetailPassed =>
        LET idGiven == uresp.user_id # None /\ Val(uresp.user_id) # 0
            emailGiven == uresp.email # None /\ Val(uresp.email) # ""
            deny == /\ ~CallerIsAdmin
                    /\ \/ idGiven /\ uresp.user_id # Get(Caller, "id")
                       \/ emailGiven /\ uresp.email # Get(Caller, "email")
        IN  /\ (uresp.resp = HTTPException(403, FORBIDDEN)) <=> deny
            /\ deny => uresp.resp.data = None
            /\ (~CallerIsAdmin /\ ~deny /\ (idGiven \/ emailGiven)) =>
                   \A i \in SelectUsers(users, uresp.user_id, uresp.email) :
                       \/ Some(users[i].id) = Get(Caller, "id")
                       \/ Some(users[i].email) = Get(Caller, "email")

\* C7 witness: a non-admin asked for another user's id and was refused, with
\* that user's row in the table
C7_Witness ==
    /\ DetailPassed
    /\ ~CallerIsAdmin
    /\ uresp.user_id # None /\ Val(uresp.user_id) \in DOMAIN users
    /\ uresp.user_id # Get(Caller, "id")
    /\ uresp.resp.code = 403

\* the claims of the principal a post-service handler works with
HasCaller == PrincipalData(req.principal) # None
PostCaller == Val(PrincipalData(req.principal))
PostCallerIsAdmin == Get(PostCaller, "is_admin") = Some(1)
PostCallerOwns(p) == Get(PostCaller, "id") = Some(posts[p].created_by_user_id)
HandlerStep(route) == req.pc = "handler" /\ req.route = route /\ req'.pc = "done"
TargetIsLive == req.post_id \in DOMAIN posts /\ posts[req.post_id].is_deleted = 0

\* C3: a route's function runs only in a request whose gate has called the
\* validation endpoint and returned; the posts table changes only in such a
\* request's handler step, and never in a request the gate rejected.
C3_GateBeforeBusinessLogic ==
    [][/\ req'.pc \in {"handler", "done"} => req'.called
       /\ (req'.pc = "handler" /\ req.pc # "handler") => req.pc = "calling"
       /\ (req'.pc = "done" /\ req.pc # "done") => req.pc = "handler" /\ req.called
       /\ posts' # posts => req.pc = "handler" /\ req.called /\ req'.pc = "done"
       /\ req.pc = "rejected" => posts' = posts /\ req'.pc \in {"rejected", "idle"}]_vars

\* C3 witness: a create request passed the gate and stored a post
C3_Witness ==
    /\ req.pc = "done" /\ req.route = "create" /\ req.called
    /\ req.resp.code = 201 /\ posts # <<>>

\* C4: when the validation endpoint answers with a resp_code other than 200,
\* the gate raises 401 with exactly the upstream message as detail.
C4_DetailIsUpstreamMessage ==
    (/\ req.pc = "rejected" /\ req.called
     /\ req.reply.kind = "dict"
     /\ Get(req.reply.dict, "resp_code") \notin {None, Some(200)}) =>
        req.resp = HTTPException(401, req.reply.dict.message)

\* C5: every invocation of the gate ends, returning a principal or raising
\* 401; a time-out, a refused connection and an unparseable body all raise 401.
C5_GateEndsWith401OrPrincipal ==
    /\ [](req.pc = "rejected" => req.resp.kind = "http_error" /\ req.resp.code = 401)
    /\ []((req.pc # "calling" /\ req.called /\
           req.reply.kind \in {"timeout", "refused", "unparseable"})
             => req.pc = "rejected")
    /\ (req.pc \in {"gate", "calling"}) ~> (req.pc \in {"handler", "rejected"})

\* C5 witness: the call timed out and the request was refused with 401
C5_Witness ==
    req.pc = "rejected" /\ req.reply.kind = "timeout" /\ req.resp.code = 401

\* C6: a request with no Authorization header is refused with 401 and detail
\* TOKEN_REQUIRED, and no call to the validation endpoint is made for it.
C6_NoHeaderNoCall ==
    (req.header = None /\ req.pc \notin {"idle", "gate"}) =>
        /\ req.pc = "rejected"
        /\ req.resp = HTTPException(401, POST_TOKEN_REQUIRED)
        /\ ~req.called

\* C6 witness: such a request was refused
C6_Witness == req.pc = "rejected" /\ req.header = None /\ req.route = "delete"

\* C8: delete_post on an existing, not deleted post sets is_deleted to 1 if and
\* only if the caller is admin or the post's creator (the database working);
\* for any other caller the flag stays 0.
C8_DeleteIffAdminOrOwner ==
    [][(HandlerStep("delete") /\ HasCaller /\ TargetIsLive) =>
          LET p == req.post_id
              allowed == PostCallerIsAdmin \/ PostCallerOwns(p)
          IN  /\ posts'[p].is_deleted = 1 <=> (allowed /\ req'.resp.code # 500)
              /\ (allowed /\ req'.resp.code # 500) => req'.resp.code = 200
              /\ ~allowed => posts' = posts]_vars

\* C8 witness: an admin who is not the creator deleted a post
C8_Witness ==
    /\ req.pc = "done" /\ req.route = "delete" /\ HasCaller
    /\ req.post_id \in DOMAIN posts
    /\ posts[req.post_id].is_deleted = 1
    /\ req.resp.code = 200
    /\ PostCallerIsAdmin /\ ~PostCallerOwns(req.post_id)

\* the update of the request is in the table
Applied(db) ==
    /\ db[req.post_id].title = req.title
    /\ db[req.post_id].description = req.description

\* C9 as stated: update_post applies the update if and only if the caller is
\* admin or the post's creator (title free, database working).
C9_UpdateIffAdminOrOwner ==
    [][(/\ HandlerStep("edit") /\ HasCaller /\ TargetIsLive
        /\ req'.resp.code # 500) =>
          ((req'.resp.code = 200 /\ Applied(posts'))
              <=> (PostCallerIsAdmin \/ PostCallerOwns(req.post_id)))]_vars

\* C9: update_post applies the update to an existing, not deleted post only
\* for its creator, admin or not: the creator's update is applied unless the
\* title is taken by another post or the database fails (500); any other
\* caller, an admin included, gets 404 and the table is unchanged.
C9_UpdateIffOwner ==
    [][(HandlerStep("edit") /\ HasCaller /\ TargetIsLive) =>
          LET p == req.post_id
              taken == \E j \in DOMAIN posts : j # p /\ posts[j].title = req.title
          IN  /\ PostCallerOwns(p) =>
                    \/ req'.resp.code = 200 /\ Applied(posts')
                          /\ \A j \in DOMAIN posts : j # p => posts'[j] = posts[j]
                    \/ req'.resp.code = 500 /\ posts' = posts
              /\ (PostCallerOwns(p) /\ taken) => req'.resp.code = 500
              /\ ~PostCallerOwns(p) => req'.resp.code \in {404, 500} /\ posts' = posts]_vars

\* C9 witness: the creator, not an admin, gave a post another title
C9_Witness ==
    /\ req.pc = "done" /\ req.route = "edit" /\ HasCaller
    /\ req.post_id \in DOMAIN posts
    /\ req.resp.code = 200
    /\ PostCallerOwns(req.post_id) /\ ~PostCallerIsAdmin
    /\ posts[req.post_id].title = "title-2"
    /\ req.title = "title-2"

\* C10: a request the authorization policy denies is answered 403: a
\* non-admin asking for another user's details, and a caller who is neither
\* admin nor creator deleting or updating an existing post.
C10_DenialIsForbidden ==
    /\ (/\ DetailPassed /\ ~CallerIsAdmin
        /\ TruthyInt(uresp.user_id) /\ uresp.user_id # Get(Caller, "id"))
          => uresp.resp.code = 403
    /\ (/\ req.pc = "done" /\ req.route \in {"delete", "edit"} /\ HasCaller
        /\ req.post_id \in DOMAIN posts
        /\ posts[req.post_id].is_deleted = 0
        /\ Get(PostCaller, "id") # None
        /\ ~PostCallerIsAdmin /\ ~PostCallerOwns(req.post_id)
        /\ req.resp.code # 500)
          => req.resp.code = 403

\* the credentials of the answered sign-in name a row and match its hash
SignedIn == uresp.op = "sign-in" /\ ~uresp.fault
CredentialsMatch ==
    \E i \in DOMAIN users :
        /\ users[i].email = Val(uresp.email)
        /\ verify_password(Val(uresp.password), users[i].password)

\* C11: a login whose email is not registered, or whose password does not
\* match the stored hash, is answered resp_code 401 with the
\* invalid-credentials message and no token, whichever of the two it is.
C11_BadCredentialsAre401 ==
    (SignedIn /\ ~CredentialsMatch) =>
        /\ uresp.resp.code = 401
        /\ uresp.resp.message = INVALID_CREDENTIALS
        /\ uresp.resp.data = None

\* the row the answered sign-in names
LoginRow == users[CHOOSE i \in DOMAIN users : users[i].email = Val(uresp.email)]

\* the token is still within its lifetime at second t
BeforeExpiry(tok, t) == Get(tok.claims, "exp") = None \/ t < tok.claims.exp

\* C12: a login with a registered email and the password of its registration
\* is answered 200 with data holding exactly id, username, email, is_admin
\* and token (no password), the first four being the row's; the token,
\* presented to validate-token before its expiry, is answered 200 with the
\* same id and email.
C12_LoginIssuesValidToken ==
    /\ (SignedIn /\ CredentialsMatch) =>
          /\ uresp.resp.code = 200
          /\ uresp.resp.data # None
          /\ LET data == Val(uresp.resp.data)
                 again == validate_token(data.token, users, now, FALSE)
             IN  /\ DOMAIN data = {"id", "username", "email", "is_admin", "token"}
                 /\ data.id = LoginRow.id /\ data.email = LoginRow.email
                 /\ data.username = LoginRow.username
                 /\ data.is_admin = LoginRow.is_admin
                 /\ data.token \in issued
                 /\ again.code = 200
                 /\ Val(again.data).id = data.id
                 /\ Val(again.data).email = data.email
    /\ (/\ uresp.op = "validate-token" /\ ~uresp.fault
        /\ Val(uresp.header) \in issued
        /\ BeforeExpiry(Val(uresp.header), uresp.at)) =>
          /\ uresp.resp.code = 200
          /\ \E i \in DOMAIN users :
                /\ Val(uresp.resp.data).id = users[i].id
                /\ Val(uresp.resp.data).email = users[i].email

\* C12 witness: a user who signed up has logged in, and the token issued to
\* them was then validated
C12_Witness ==
    /\ uresp.op = "validate-token" /\ ~uresp.fault
    /\ Val(uresp.header) \in issued
    /\ uresp.resp.code = 200
    /\ Val(uresp.resp.data).email = "a@x.com"

\* the answered sign-up met a table that already held its email
EmailWasRegistered ==
    \E i \in 1..uresp.nusers : users[i].email = Val(uresp.email)

\* C13: sign-up with an email not yet registered creates exactly one record
\* and is answered 201; with an email already registered it is answered 400
\* and the table is as it was (the database working).
C13_SignUpCreatesOrRejects ==
    (uresp.op = "sign-up" /\ ~uresp.fault) =>
        IF EmailWasRegistered
        THEN uresp.resp.code = 400 /\ Len(users) = uresp.nusers
        ELSE uresp.resp.code = 201 /\ Len(users) = uresp.nusers + 1

\* a check of the issued token has been made
IssueChecked == iss.pc = "checked"

\* C14: a token issued with an expires_delta of zero or less fails
\* verification as expired at every check made after the issue.
C14_NonPositiveTtlIsExpired ==
    (/\ IssueChecked /\ iss.ttl # None /\ Val(iss.ttl) <= 0
     /\ iss.checked > iss.at) =>
        /\ ~vres.ok
        /\ vres.error = "Signature has expired."

NoExpSigned(header) ==
    /\ header # None
    /\ Val(header).form = "jwt"
    /\ Val(header).key = JWT_SECRET_KEY /\ Val(header).alg = ALGORITHM
    /\ "exp" \notin DOMAIN Val(header).claims

\* C16: a correctly signed token without an exp claim is rejected with 401,
\* by validate-token and by the local gate decode_token of /users routes.
C16_MissingExpIsRejected ==
    (uresp.op \in {"validate-token", "users", "detail"} /\ NoExpSigned(uresp.header))
        => uresp.resp.code = 401

\* the fixed messages of core/messages.py the two services answer with
UserFacingMessages ==
    {USER_CREATION_SUCCESS, USER_NOT_FOUND, USER_ALREADY_EXISTS, USER_LIST_EMPTY,
     USER_LIST_SUCCESS, USER_DETAILS_SUCCESS, USER_ID_EMAIL_REQUIRED,
     USER_SIGN_IN_SUCCESS, INVALID_CREDENTIALS, INVALID_TOKEN, TOKEN_REQUIRED,
     UNAUTHORIZED, FORBIDDEN, POST_CREATION_SUCCESS, POST_UPDATE_SUCCESS,
     POST_DELETE_SUCCESS, POST_NOT_FOUND, POST_ALREADY_EXISTS, POST_LIST_SUCCESS,
     POST_DETAILS_SUCCESS, POST_TOKEN_REQUIRED, INTERNAL_SERVER_ERROR, NO_RECORDS}

IsFailureEnvelope(resp) ==
    resp.kind = "envelope" /\ resp.message \in UserFacingMessages

\* C17: every failure response of either service is the envelope
\* {resp_code, message, data} and its message is one of the fixed messages.
C17_FailuresAreEnvelopes ==
    /\ (uresp.op # "none" /\ uresp.resp.code >= 400) => IsFailureEnvelope(uresp.resp)
    /\ (req.pc \in {"rejected", "done"} /\ req.resp.code >= 400)
          => IsFailureEnvelope(req.resp)

\* the answered request reached its database operation and the operation failed
DatabaseFailed ==
    /\ uresp.fault
    /\ \/ uresp.op \in {"sign-up", "sign-in"}
       \/ /\ uresp.op = "validate-token"
          /\ jwt_decode(Val(uresp.header), JWT_SECRET_KEY, ALGORITHM, uresp.at).ok

\* C18: a handler whose database operation fails answers resp_code 500 and
\* leaves no new or changed row.
C18_DatabaseFailureIs500 ==
    DatabaseFailed => (uresp.resp.code = 500 /\ Len(users) = uresp.nusers)

\* the validation endpoint answered this request's token with 200 and its claims
GateValidated ==
    /\ req.called /\ req.reply.kind = "dict"
    /\ Get(req.reply.dict, "resp_code") = Some(200)
    /\ req.header # None /\ Val(req.header).form = "jwt"
    /\ req.reply.dict.data = Some(Val(req.header).claims)

\* C19: a create-post request answered 201 has stored exactly one post, and
\* its created_by_user_id is the id claim of the token the gate validated for
\* that request, whatever owner id the caller sent.
C19_CreatorIsTokenId ==
    [][(HandlerStep("create") /\ req'.resp.code = 201) =>
          /\ GateValidated
          /\ Len(posts') = Len(posts) + 1
          /\ \A i \in DOMAIN posts : posts'[i] = posts[i]
          /\ Some(posts'[Len(posts')].created_by_user_id)
                = Get(Val(req.header).claims, "id")]_vars

\* C19 witness: user 1 sent the owner id 2 with a create request, and the
\* post stored is user 1's
C19_Witness ==
    /\ req.pc = "done" /\ req.route = "create" /\ req.resp.code = 201
    /\ req.user_id = 2
    /\ Get(Val(req.header).claims, "id") = Some(1)
    /\ posts[Len(posts)].created_by_user_id = 1

\* this step is a call of validate-token with the token under test
Revalidated == vres'.n = vres.n + 1

GatePassed == req.called /\ req.pc \in {"handler", "done"}

\* C21: verify_token lets a request through only when the upstream body
\* carries resp_code 200; an empty object, an empty list and a null body
\* lead to 401 like every other body without resp_code 200.
C21_PassOnlyOnRespCode200 ==
    /\ GatePassed =>
          (req.reply.kind = "dict" /\ Get(req.reply.dict, "resp_code") = Some(200))
    /\ (/\ req.called /\ req.pc \notin {"calling", "idle"}
        /\ ~(req.reply.kind = "dict" /\ Get(req.reply.dict, "resp_code") = Some(200)))
          => (req.pc = "rejected" /\ req.resp.code = 401)

\* both sign-ups are answered; they carried one email, not registered when
\* they arrived, and two different usernames that nobody had
SameNewEmailRace ==
    /\ \A p \in Racers : su[p].pc = "done"
    /\ su[1].email = su[2].email
    /\ su[1].username # su[2].username
    /\ \A i \in 1..su[1].nusers :
          /\ users[i].email # su[1].email
          /\ users[i].username \notin {su[1].username, su[2].username}

\* C22: of two sign-ups at once with the same unregistered email, at most
\* one creates a record with that email, and the other is answered 400.
C22_RaceLoserGets400 ==
    SameNewEmailRace =>
        /\ Cardinality({i \in DOMAIN users : users[i].email = su[1].email}) <= 1
        /\ \E p \in Racers :
              /\ su[p].resp.code = 201
              /\ \A q \in Racers \ {p} : su[q].resp.code = 400

\* the answered /users/detail request passed authorize_user and names, by
\* user_id or else by email, exactly one row
DetailTarget == SelectUsers(users, uresp.user_id, uresp.email)
AuthorizedDetailOfExisting ==
    /\ DetailPassed /\ ~uresp.fault
    /\ authorize_user(uresp.user_id, uresp.email, Caller)
    /\ TruthyInt(uresp.user_id) \/ TruthyStr(uresp.email)
    /\ Cardinality(DetailTarget) = 1

\* C23: an authorized /users/detail request for an existing user is
\* answered 200 with that user's id, username, email and is_admin, without
\* the password, and with a posts field.
C23_DetailReturnsUserWithPosts ==
    AuthorizedDetailOfExisting =>
        /\ uresp.resp.code = 200
        /\ uresp.resp.data # None
        /\ LET row == users[CHOOSE i \in DetailTarget : TRUE]
               data == Val(uresp.resp.data)
           IN  /\ DOMAIN data = {"id", "username", "email", "is_admin", "posts"}
               /\ data.id = row.id /\ data.email = row.email
               /\ data.username = row.username /\ data.is_admin = row.is_admin

\* the answered request is GET /users/; its header, decoded as decode_token does
ListAsked == uresp.op = "users"
ListDecoded ==
    IF uresp.header = None THEN Unchecked
    ELSE jwt_decode(Val(uresp.header), JWT_SECRET_KEY, ALGORITHM, now)
ListRefusal(status_code) ==
    uresp.resp.kind = "http_error" /\ uresp.resp.code = status_code

\* C24 as stated: get_all_users runs only for a verified token with an id
\* claim and is_admin 1; every other verified token gets 403, and a missing
\* or unverifiable token gets 401.
C24_AdminOnlyElse403Or401 ==
    ListAsked =>
        IF ListDecoded.ok
        THEN IF /\ Get(ListDecoded.claims, "id") # None
                /\ Get(ListDecoded.claims, "is_admin") = Some(1)
             THEN uresp.resp = get_all_users(users, uresp.fault)
             ELSE ListRefusal(403)
        ELSE ListRefusal(401)

\* C24: GET /users/ runs get_all_users only for a token that decode_token
\* verifies, that carries an id claim and whose is_admin is 1.  No header, or
\* a token that does not verify, gets 401; an empty bearer token gets 400; a
\* verified token without an id claim gets 401 whatever its is_admin; a
\* verified token with an id claim and another is_admin gets 403.  None of
\* the refusals reads the users table: a failing database does not change them.
C24_AdminOnlyListing ==
    ListAsked =>
        IF uresp.header = None
        THEN uresp.resp = HTTPException(401, NOT_AUTHENTICATED)
        ELSE IF Val(uresp.header).form = "empty"
        THEN uresp.resp = HTTPException(400, TOKEN_REQUIRED)
        ELSE IF ~ListDecoded.ok
        THEN uresp.resp = HTTPException(401, UNAUTHORIZED)
        ELSE IF Get(ListDecoded.claims, "id") = None
        THEN uresp.resp = HTTPException(401, INVALID_TOKEN)
        ELSE IF Get(ListDecoded.claims, "is_admin") # Some(1)
        THEN uresp.resp = HTTPException(403, FORBIDDEN)
        ELSE uresp.resp = get_all_users(users, uresp.fault)

\* C24 witness: a verified non-admin token was refused with 403 while the
\* database was failing
C24_Witness ==
    /\ ListAsked /\ uresp.fault /\ ListDecoded.ok
    /\ Get(ListDecoded.claims, "is_admin") = Some(0)
    /\ uresp.resp = HTTPException(403, FORBIDDEN)

\* C25: validate_token answers 200 only if a row exists whose id is the
\* token's id claim or, the token having no id or a zero one, whose email is
\* the token's email claim; a token with neither claim is never answered 200.
C25_ValidatedTokenNamesARecord ==
    (uresp.op = "validate-token" /\ uresp.resp.code = 200) =>
        LET claims == Val(uresp.header).claims
            id == Get(claims, "id")
            email == Get(claims, "email")
        IN  IF TruthyInt(id)
            THEN \E i \in DOMAIN users : users[i].id = Val(id)
            ELSE /\ TruthyStr(email)
                 /\ \E i \in DOMAIN users : users[i].email = Val(email)

\* the stored hashes, and whether a dict shows one: under the key password,
\* or as the value of one of its text fields
Hashes == {users[i].password : i \in DOMAIN users}
ShowsHash(d) ==
    \/ "password" \in DOMAIN d
    \/ \E k \in DOMAIN d \cap {"username", "email"} : d[k] \in Hashes

\* C26: no issued token's claims and no response's data hold a stored
\* password hash.
C26_NoHashLeaves ==
    /\ \A tok \in issued : ~ShowsHash(tok.claims)
    /\ (uresp.op # "none" /\ uresp.resp.data # None) =>
          LET data == Val(uresp.resp.data)
          IN  CASE uresp.op = "users" -> \A i \in DOMAIN data : ~ShowsHash(data[i])
                [] uresp.op = "sign-in" ->
                      ~ShowsHash(data) /\ ~ShowsHash(data.token.claims)
                [] OTHER -> ~ShowsHash(data)

\* C26 witness: an admin listed a table that holds a user who signed up
C26_Witness ==
    /\ uresp.op = "users" /\ uresp.resp.code = 200
    /\ \E i \in DOMAIN users : users[i].is_admin = 0

\* C27: no request changes a row's is_admin; every row sign-up creates has
\* is_admin 0, and no token login issues for such a row carries is_admin 1.
C27_IsAdminIsNeverGranted ==
    [][/\ \A i \in DOMAIN users :
             i \in DOMAIN users' /\ users'[i].is_admin = users[i].is_admin
       /\ \A i \in DOMAIN users' \ DOMAIN users : users'[i].is_admin = 0
       /\ \A tok \in issued' :
             tok.claims.email # SeededAdmin.email => tok.claims.is_admin = 0]_vars

\* C27 witness: a user who signed up holds a token, and it says is_admin 0
C27_Witness ==
    \E tok \in issued :
        /\ tok.claims.email = "a@x.com" /\ tok.claims.is_admin = 0
        /\ \E i \in DOMAIN users : users[i].email = "a@x.com"

\* C28: soft delete is monotonic.  No step of the post service removes a row
\* or changes a row's id, a row whose is_deleted is 1 keeps it, and update_post
\* and delete_post on an already deleted post change nothing and answer 404
\* (500 when the database fails).
C28_SoftDeleteIsMonotonic ==
    [][/\ Len(posts') >= Len(posts)
       /\ \A i \in DOMAIN posts :
             /\ posts'[i].id = posts[i].id
             /\ posts[i].is_deleted = 1 => posts'[i].is_deleted = 1
       /\ \A route \in {"edit", "delete"} :
             (/\ HandlerStep(route) /\ HasCaller
              /\ req.post_id \in DOMAIN posts
              /\ posts[req.post_id].is_deleted = 1)
                => /\ posts' = posts
                   /\ req'.resp.code \in {404, 500}
                   /\ req'.resp.code = 404 \/ req'.resp.message = INTERNAL_SERVER_ERROR]_vars

\* C28 witness: the creator's update of their own deleted post was answered 404
C28_Witness ==
    /\ req.pc = "done" /\ req.route = "edit" /\ HasCaller
    /\ req.post_id \in DOMAIN posts
    /\ posts[req.post_id].is_deleted = 1
    /\ PostCallerOwns(req.post_id)
    /\ req.resp.code = 404

\* the handler of one of the given routes has answered, the database working
Answers(routes) ==
    req.pc = "done" /\ req.route \in routes /\ req.resp.code # 500

\* C29: get_post_details answers 200 with the row for every id that has a row,
\* deleted or not, and 404 only when no row has the id; the lists of
\* get_post_list and get_user_posts hold no row whose is_deleted is 1.
C29_DetailsShowDeletedListsDoNot ==
    /\ Answers({"details"}) =>
          IF req.post_id \in DOMAIN posts
          THEN /\ req.resp.code = 200
               /\ req.resp.data = Some(posts[req.post_id])
          ELSE req.resp.code = 404 /\ req.resp.data = None
    /\ Answers({"list", "user-posts"}) =>
          /\ req.resp.code = 200
          /\ \A i \in DOMAIN Val(req.resp.data) : Val(req.resp.data)[i].is_deleted = 0

\* C29 witness: the details of a deleted post were returned with 200
C29_Witness ==
    /\ Answers({"details"})
    /\ req.post_id \in DOMAIN posts
    /\ posts[req.post_id].is_deleted = 1
    /\ req.resp.code = 200

=============================================================================
